---- MODULE Spec2Model ----
(***************************************************************************)
(* State-machine model of src/Weaviate.ts: WeaviateDataManager (collection *)
(* lifecycle and persistence) and WeaviateMethodHandler (exchange and      *)
(* discordxchange).  Every await of the source is a yield point: a call    *)
(* runs from one await to the next in one step, and the remote side        *)
(* (vector store, completion API, chat transport, timer) answers each      *)
(* pending request with one of the outcomes its interface allows.          *)
(***************************************************************************)
EXTENDS Naturals, Sequences, FiniteSets, TLC

\* ---------------------------------------------------------------- bounds
\* Calls of public operations started in a behaviour.
MaxCalls == 2

\* Two concurrent users of one instance pair: "h" calls the methods of the
\* WeaviateMethodHandler, "m" calls the public methods of its
\* WeaviateDataManager directly.  Each has at most one call in flight.
Callers == {"h", "m"}

\* ------------------------------------------------------- JavaScript values
Str(s) == [t |-> "string", v |-> s]
Bool(b) == [t |-> "boolean", v |-> IF b THEN "true" ELSE "false"]
Undefined == [t |-> "undefined", v |-> ""]
Null == [t |-> "null", v |-> ""]
\* parsed.detail.map(msg => inspect(msg)): an array of strings
DetailArray == [t |-> "array", v |-> "issue"]
\* the message object sendMessage resolves to
MessageObject == [t |-> "object", v |-> "message"]
\* an exception leaving an async function (a rejected promise)
Thrown(m) == [t |-> "thrown", v |-> m]

\* ToBoolean
Truthy(x) ==
  CASE x.t = "string" -> x.v # ""
    [] x.t = "boolean" -> x.v = "true"
    [] x.t = "undefined" -> FALSE
    [] x.t = "null" -> FALSE
    [] OTHER -> TRUE

\* `${x}`: ToString of a value
TemplateString(x) ==
  CASE x.t = "string" -> x
    [] x.t = "boolean" -> Str(x.v)
    [] x.t = "undefined" -> Str("undefined")
    [] x.t = "null" -> Str("null")
    [] x.t = "array" -> Str(x.v)
    [] OTHER -> Str("[object Object]")

\* e.message || e, for the errors the remote side raises
ConnectError == "connect failed"
ReadyError == "isReady failed"
ExistsError == "exists failed"
CreateError == "create failed"
QueryError == "query failed"
GenerateError == "generate failed"
CompletionError == "completion failed"
JsonError == "json failed"
InsertError == "insert failed"
SendError == "send failed"
TypingError == "typing failed"

NULL == "null"
NoTimestamp == ""
HANDLE == "handle"
CLIENT == "client"

\* the user query passed as input, and the text the model composes
UserQuery == Str("hello")
ReplyText == Str("reply")

\* ------------------------------------------- payloads (structured values)
\* The payload of StoreDiscordMessagePayload is a JSON-like value: a
\* primitive, or an object / array whose own enumerable properties are kept
\* in key order as a sequence of fields (an array's keys are its indices).
Prim(t, v) == [t |-> t, v |-> v, kids |-> <<>>]
JNull == Prim("null", "")
JUndefined == Prim("undefined", "")
JStr(s) == Prim("string", s)
Field(k, x) == [k |-> k, x |-> x]
Obj(fields) == [t |-> "object", v |-> "", kids |-> fields]
Arr(fields) == [t |-> "array", v |-> "", kids |-> fields]

\* typeof x === 'object' && x !== null
IsObject(x) == x.t \in {"object", "array"}

\* Object.keys(obj)
Keys(obj) == [i \in 1..Len(obj.kids) |-> obj.kids[i].k]

\* key in obj (own property)
Has(obj, key) == \E i \in 1..Len(obj.kids) : obj.kids[i].k = key

\* obj[key]: undefined when obj has no such property
Get(obj, key) ==
  IF Has(obj, key)
    THEN obj.kids[CHOOSE i \in 1..Len(obj.kids) : obj.kids[i].k = key].x
    ELSE JUndefined

\* obj[key] = x: an existing property keeps its place, a new one is last
Set(obj, key, x) ==
  IF Has(obj, key)
    THEN [obj EXCEPT !.kids = [i \in 1..Len(obj.kids) |->
                                 IF obj.kids[i].k = key THEN Field(key, x)
                                 ELSE obj.kids[i]]]
    ELSE [obj EXCEPT !.kids = Append(@, Field(key, x))]

\* delete obj[key]
DeleteKey(obj, key) ==
  LET keep(f) == f.k # key IN [obj EXCEPT !.kids = SelectSeq(@, keep)]

\* { ...x }: a new plain object with the own enumerable properties of x.
\* null and undefined spread to nothing, the characters of a string spread
\* under their indices (kept here as one field for all of them).
Spread(x) ==
  CASE IsObject(x) -> Obj(x.kids)
    [] x.t = "string" /\ x.v # "" -> Obj(<<Field("0..", x)>>)
    [] OTHER -> Obj(<<>>)

\* A walk that stops at the top level.
replaceNulls_TopLevelOnly(obj) ==
  [obj EXCEPT !.kids = [i \in 1..Len(obj.kids) |->
     IF obj.kids[i].x.t = "null" THEN Field(obj.kids[i].k, JUndefined)
     ELSE obj.kids[i]]]

\* replaceNulls(obj): every property holding null is assigned undefined, in
\* place; objects and arrays are walked recursively.
RECURSIVE replaceNulls(_)
replaceNulls(obj) ==
  [obj EXCEPT !.kids = [i \in 1..Len(obj.kids) |->
     LET f == obj.kids[i] IN
     IF f.x.t = "null" THEN Field(f.k, JUndefined)
     ELSE IF IsObject(f.x) THEN Field(f.k, replaceNulls(f.x))
     ELSE f]]

\* const insertObj = { ...params, messageID: params.id, role };
\* delete insertObj.id;
insertObj_KeepId(role, params) ==
  Set(Set(Spread(params), "messageID", Get(params, "id")),
      "role", JStr(role))

insertObj(role, params) ==
  DeleteKey(Set(Set(Spread(params), "messageID", Get(params, "id")),
                "role", JStr(role)),
            "id")

\* properties: { ...insertObj } after replaceNulls(insertObj)
InsertProperties(role, params) == Spread(replaceNulls(insertObj(role, params)))

\* The payloads a caller passes to StoreDiscordMessagePayload: transport
\* messages with and without an id, with null at the top level, in a nested
\* object, in a nested list and in an object of a nested list, and with
\* fields named like the ones the method adds; and no message at all
\* (null, undefined).
PayloadId == JStr("X")
Payloads ==
  { Obj(<<Field("id", PayloadId), Field("content", JStr("hi"))>>),
    Obj(<<Field("id", PayloadId), Field("content", JNull)>>),
    Obj(<<Field("id", PayloadId),
          Field("author", Obj(<<Field("bot", JNull),
                                Field("id", JStr("A"))>>))>>),
    Obj(<<Field("id", PayloadId),
          Field("embeds", Arr(<<Field("0", JNull),
                                Field("1", JStr("e"))>>))>>),
    Obj(<<Field("id", PayloadId),
          Field("mentions",
                Arr(<<Field("0", Obj(<<Field("nick", JNull)>>))>>))>>),
    Obj(<<Field("content", JStr("hi"))>>),
    Obj(<<Field("id", JNull), Field("content", JStr("hi"))>>),
    Obj(<<Field("id", PayloadId), Field("messageID", JStr("M")),
          Field("role", JNull)>>),
    JNull, JUndefined }

\* The structured value behind a value of the handler: the transport
\* payload given to discordxchange, the message sendMessage resolved to,
\* the detail array, or a string.
Structured(x) ==
  CASE x.t = "object" /\ x.v = "input" ->
         Obj(<<Field("id", PayloadId), Field("content", JStr("hello")),
               Field("channel_id", JStr("C")),
               Field("referenced_message", JNull)>>)
    [] x.t = "object" ->
         Obj(<<Field("id", JStr("Y")), Field("content", JStr("reply")),
               Field("channel_id", JStr("C")),
               Field("referenced_message", JNull)>>)
    [] x.t = "array" -> Arr(<<Field("0", JStr(x.v))>>)
    [] OTHER -> Prim(x.t, x.v)

\* ------------------------------------------------------ collection name
\* Names are sequences of characters.
MaxLen == 3
Whitespace == {" ", "\t"}
Characters == {"T", "m"} \cup Whitespace
Discord_ == <<"D", "i", "s", "c", "o", "r", "d", "_">>
History_ == <<"H", "i", "s", "t", "o", "r", "y", "_">>
TestRoom == <<"T", "e", "s", "t", " ", "R", "o", "o", "m">>
SourceTypes == {"history", "discord"}

\* s.replace(/\s+/, ''): only the first run of whitespace is removed.
ReplaceWhitespace_FirstRunOnly(s) ==
  LET ws == {i \in 1..Len(s) : s[i] \in Whitespace} IN
  IF ws = {} THEN s
  ELSE LET a == CHOOSE i \in ws : \A j \in ws : i <= j
           b == CHOOSE i \in a..Len(s) :
                  /\ \A j \in a..i : s[j] \in Whitespace
                  /\ i = Len(s) \/ s[i + 1] \notin Whitespace IN
       SubSeq(s, 1, a - 1) \o SubSeq(s, b + 1, Len(s))

\* s.replace(/\s+/g, ''): every run of whitespace is removed.
ReplaceWhitespace(s) ==
  LET keep(ch) == ch \notin Whitespace IN SelectSeq(s, keep)

\* The constructor's dataCollectionName.
DataCollectionName(type, collection) ==
  ReplaceWhitespace(IF type = "discord" THEN Discord_ \o collection
                    ELSE History_ \o collection)

\* The logical names given to the constructor.
RECURSIVE SeqsUpTo(_)
SeqsUpTo(n) ==
  IF n = 0 THEN {<<>>}
  ELSE SeqsUpTo(n - 1)
         \cup {Append(q, ch) : q \in {x \in SeqsUpTo(n - 1) : Len(x) = n - 1},
                               ch \in Characters}
LogicalNames == SeqsUpTo(MaxLen) \cup {TestRoom}

VARIABLES
  exchangeType,         \* WeaviateDataManager.exchangeType
  collectionArg,        \* the collection argument of the constructor
  dataCollectionName,   \* WeaviateDataManager.dataCollectionName
  weaviateDataManager,  \* WeaviateMethodHandler.weaviateDataManager: "manager" or NULL
  client,               \* WeaviateDataManager.client
  dataCollection,       \* WeaviateDataManager.dataCollection
  collExists,           \* store: the collection of dataCollectionName exists
  remoteReady,          \* store: what client.isReady() answers now
  entries,              \* store: the objects of the collection, in insertion order
  started,              \* calls started so far
  runtime,              \* the JavaScript runtime the process runs on
  calls                 \* per caller: the call in flight or the last one finished

\* What is fixed once the manager is constructed: the fields the
\* constructor sets and no method assigns, and the runtime of the process.
ctorVars == <<exchangeType, collectionArg, dataCollectionName, runtime>>

vars == <<exchangeType, collectionArg, dataCollectionName, runtime,
          weaviateDataManager,
          client, dataCollection, collExists, remoteReady, entries, started,
          calls>>

\* A call that has not started.
Fresh ==
  [op |-> "none", pc |-> "idle", search |-> "", method |-> "",
   collection |-> NULL, isReady |-> FALSE, exists |-> "unknown",
   ctx |-> "none", comp |-> "none", response |-> Undefined,
   pending |-> <<>>, ret |-> Undefined, log |-> <<>>, added |-> <<>>,
   heldAtStart |-> FALSE, sub |-> Undefined, pairRet |-> Undefined,
   batch |-> "none", sent |-> <<>>, openRet |-> Undefined, cause |-> "",
   params |-> JUndefined, properties |-> JUndefined, role |-> "",
   getClientRet |-> Undefined, lastOpenCause |-> ""]

\* The call returns v (or throws, v = Thrown(..)).
Finish(r, v) == [r EXCEPT !.pc = "done", !.ret = v, !.pending = <<>>]

\* The call issues a remote request and awaits its answer.
Issue(r, pc, req) == [r EXCEPT !.pc = pc, !.log = Append(@, req)]


\* A manager method called by the routine returned without awaiting a request.
Return(r, v) == [r EXCEPT !.pc = "ret", !.sub = v, !.pending = <<>>]

Uuid(n) ==
  "uuid-" \o <<"0", "1", "2", "3", "4", "5", "6", "7", "8", "9">>[n + 1]

\* ------------------------------------------------- WeaviateDataManager
\* getClient up to its first await: the session request is sent.
GetClientStart(r) == Issue(r, "connect", "connect")

\* createCollection up to its await: the create request is sent, unless no
\* client is held, in which case the method catches its own throw and
\* returns null.
CreateCollectionStart(r, cl) ==
  IF cl = NULL THEN Return(r, Null) ELSE Issue(r, "create", "create")

\* An addHistoryMessage that does not test this.dataCollection.
AddHistoryMessage_NoGuard(r, role, content, dc, t, id) ==
  [Issue(r, "insert", "insert") EXCEPT
     !.pending = <<[id |-> id, role |-> role, content |-> content,
                    ts |-> t]>>]

\* addHistoryMessage up to its await.  dc is this.dataCollection, t the
\* clock and id the next uuid when the method is entered.
AddHistoryMessage(r, role, content, dc, t, id) ==
  IF dc = NULL
    THEN Return(r, Str("Error getting collection"))
    ELSE [Issue(r, "insert", "insert") EXCEPT
            !.pending = <<[id |-> id, role |-> role,
                           content |-> content, ts |-> t]>>]

\* addHistoryMessage after its await: the insert id, or e.message || e.
AddHistoryMessageResult(ok, entry) ==
  IF ok THEN Str(Uuid(entry.id)) ELSE Str(InsertError)

\* The two objects addHistoryMessagePair hands to insertMany.
PairEntries(userMessage, aiMessage, t, id) ==
  <<[id |-> id, role |-> "user", content |-> userMessage, ts |-> t],
    [id |-> id + 1, role |-> "assistant", content |-> aiMessage,
     ts |-> t]>>

\* addHistoryMessagePair up to its await.
AddHistoryMessagePair(r, userMessage, aiMessage, dc, t, id) ==
  IF dc = NULL
    THEN Return(r, Bool(FALSE))
    ELSE [Issue(r, "insertMany", "insertMany") EXCEPT
            !.pending = PairEntries(userMessage, aiMessage, t, id),
            !.sent = PairEntries(userMessage, aiMessage, t, id)]

\* addHistoryMessagePair after its await: what it returns for the batch
\* answer (thrown, or the hasErrors flag of the batch result).
PairResult_Negated(thrown, hasErrors) ==
  IF thrown THEN Bool(FALSE) ELSE Bool(~hasErrors)

PairResult(thrown, hasErrors) ==
  IF thrown THEN Bool(FALSE) ELSE Bool(hasErrors)

\* StoreDiscordMessagePayload up to its await.  Reading params.id of an
\* undefined or null payload throws a TypeError inside the try, so no insert
\* is sent and the message of the error is returned.  The object handed to
\* data.insert is { id: uuidv4(), properties }; it has no timestamp.
StoreDiscordMessagePayload(r, pc, role, params, dc, id) ==
  IF dc = NULL
    THEN Return(r, Str("Error getting collection"))
    ELSE IF params.t \in {"undefined", "null"}
      THEN Return(r, Str("Cannot read properties of " \o params.t
                         \o " (reading 'id')"))
      ELSE [Issue(r, pc, "insert") EXCEPT
              !.params = params,
              !.properties = InsertProperties(role, params),
              !.pending = <<[id |-> id, role |-> role,
                             content |-> [t |-> params.t, v |-> params.v],
                             ts |-> NoTimestamp]>>]

\* ------------------------------------------------ WeaviateMethodHandler
\* The inbound transport payload of discordxchange.
InputPayload == [t |-> "object", v |-> "input"]

\* exchange's arguments: the four pairs of the table, a method name no
\* routine table has, and names that an object literal or a function
\* inherits.
Searches == {"generative", "semantic", "constructor", "__proto__"}
Methods == {"hybrid", "nearText", "name", "constructor", "toString",
            "hasOwnProperty", "groupBy"}

\* The objects of the lookup exchanges[search][method].  The literal and its
\* two routine tables are plain objects; what they inherit comes from
\* Object.prototype, and what a built-in function inherits from
\* Function.prototype and then Object.prototype.
PlainObjects == {"exchanges", "generativeRoutines", "semanticRoutines"}

\* The own properties of Object.prototype that hold a function, besides
\* constructor.
ObjectProtoMethods ==
  {"toString", "toLocaleString", "valueOf", "hasOwnProperty",
   "isPrototypeOf", "propertyIsEnumerable", "__defineGetter__",
   "__defineSetter__", "__lookupGetter__", "__lookupSetter__"}

\* The runtimes the file runs on.  Object.groupBy exists from Node 21 on.
Runtimes == {"node20", "node22"}

\* The static methods of the Object constructor on runtime rt.
ObjectStatics(rt) ==
  (IF rt = "node20" THEN {} ELSE {"groupBy"}) \cup
  {"assign", "create", "defineProperties", "defineProperty", "entries",
   "freeze", "fromEntries", "getOwnPropertyDescriptor",
   "getOwnPropertyDescriptors", "getOwnPropertyNames",
   "getOwnPropertySymbols", "getPrototypeOf", "hasOwn", "is",
   "isExtensible", "isFrozen", "isSealed", "keys", "preventExtensions",
   "seal", "setPrototypeOf", "values"}

\* The methods every function inherits from Function.prototype.
FunctionProtoMethods == {"call", "apply", "bind", "toString"}

\* The functions exchanges[search] can be: Object (exchanges.constructor)
\* and the methods of Object.prototype.
InheritedFunctions ==
  {"Object"} \cup {"Object.prototype." \o k : k \in ObjectProtoMethods}

\* Every callable value the lookup can end in on runtime rt.
Callables(rt) ==
  InheritedFunctions \cup {"routine", "Function", "Function.prototype"}
    \cup {"Function.prototype." \o k : k \in FunctionProtoMethods}
    \cup {"Object." \o k : k \in ObjectStatics(rt)}

\* The values of the lookup that the conditional operator takes as false.
Falsy == {"undefined", "null", "zero"}

\* f.name of an inherited function.
FunctionName(f) ==
  IF f = "Object" THEN "Object"
  ELSE CHOOSE k \in ObjectProtoMethods : f = "Object.prototype." \o k

\* f.length of an inherited function: "zero" for 0, "number" otherwise.
FunctionLength(f) ==
  IF f \in {"Object.prototype.toString", "Object.prototype.toLocaleString",
            "Object.prototype.valueOf"}
    THEN "zero" ELSE "number"

\* obj.__proto__
ProtoOf(obj) ==
  CASE obj \in PlainObjects -> "Object.prototype"
    [] obj = "Object.prototype" -> "null"
    [] obj \in InheritedFunctions -> "Function.prototype"
    [] OTHER -> "undefined"

\* obj[key] found on Object.prototype, for the receiver obj.
ObjectProtoGet(obj, key) ==
  CASE key = "constructor" -> "Object"
    [] key \in ObjectProtoMethods -> "Object.prototype." \o key
    [] key = "__proto__" -> ProtoOf(obj)
    [] OTHER -> "undefined"

\* f[key] of an inherited function: its own properties, then those of
\* Function.prototype (whose caller and arguments accessors throw), then
\* those of Object.prototype.
FunctionGet(rt, f, key) ==
  CASE key = "name" -> "string"
    [] key = "length" -> FunctionLength(f)
    [] key = "prototype" ->
         IF f = "Object" THEN "Object.prototype" ELSE "undefined"
    [] f = "Object" /\ key \in ObjectStatics(rt) -> "Object." \o key
    [] key \in FunctionProtoMethods -> "Function.prototype." \o key
    [] key = "constructor" -> "Function"
    [] key \in {"caller", "arguments"} -> "throws"
    [] OTHER -> ObjectProtoGet(f, key)

\* obj[key]: own properties first, then the prototype chain.
PropGet(rt, obj, key) ==
  CASE obj = "exchanges" /\ key = "generative" -> "generativeRoutines"
    [] obj = "exchanges" /\ key = "semantic" -> "semanticRoutines"
    [] obj \in {"generativeRoutines", "semanticRoutines"}
         /\ key \in {"hybrid", "nearText"} -> "routine"
    [] obj \in PlainObjects \cup {"Object.prototype"} ->
         ObjectProtoGet(obj, key)
    [] obj \in InheritedFunctions -> FunctionGet(rt, obj, key)
    [] OTHER -> "undefined"

\* Outcomes of a call: a value, or an error with its text.
Returns(v) == [kind |-> "returns", v |-> v]
Throws(e) == [kind |-> "throws", v |-> e]
ObjectValue(o) == [t |-> "object", v |-> o]
FunctionValue(n) == [t |-> "function", v |-> n]
ToObjectError == "TypeError: Cannot convert undefined or null to object"

\* The receiver as a value.
ThisValue(this) ==
  IF this \in InheritedFunctions THEN FunctionValue(FunctionName(this))
  ELSE ObjectValue(this)

\* A method of Object.prototype called with no argument on an object or a
\* function.  toString is the one of Object.prototype only for an object;
\* toLocaleString calls this.toString().
CallObjectProtoMethod(k, this) ==
  CASE k = "toString" -> Returns(Str("[object Object]"))
    [] k = "toLocaleString" ->
         IF this \in InheritedFunctions
           THEN Returns(Str("function " \o FunctionName(this)
                            \o "() { [native code] }"))
           ELSE Returns(Str("[object Object]"))
    [] k = "valueOf" -> Returns(ThisValue(this))
    [] k \in {"hasOwnProperty", "isPrototypeOf", "propertyIsEnumerable"} ->
         Returns(Bool(FALSE))
    [] k \in {"__defineGetter__", "__defineSetter__"} ->
         Throws("TypeError: Object.prototype." \o k
                \o ": Expecting function")
    [] OTHER -> Returns(Undefined)

\* An inherited function called with no argument and this = undefined, as
\* f.call() and f.apply() do.
CallWithoutThis(f) ==
  CASE f = "Object" -> Returns(ObjectValue("{}"))
    [] f = "Object.prototype.toString" -> Returns(Str("[object Undefined]"))
    [] f = "Object.prototype.isPrototypeOf" -> Returns(Bool(FALSE))
    [] f = "Object.prototype.toLocaleString" ->
         Throws("TypeError: Object.prototype.toLocaleString called on null "
                \o "or undefined")
    [] OTHER -> Throws(ToObjectError)

\* A static method of Object called with no argument.
CallObjectStatic(k) ==
  CASE k \in {"freeze", "preventExtensions", "seal"} -> Returns(Undefined)
    [] k \in {"is", "isFrozen", "isSealed"} -> Returns(Bool(TRUE))
    [] k = "isExtensible" -> Returns(Bool(FALSE))
    [] k = "create" ->
         Throws("TypeError: Object prototype may only be an Object or "
                \o "null: undefined")
    [] k \in {"defineProperty", "defineProperties"} ->
         Throws("TypeError: Object." \o k \o " called on non-object")
    [] k = "setPrototypeOf" ->
         Throws("TypeError: Object.setPrototypeOf called on null or "
                \o "undefined")
    [] k = "fromEntries" -> Throws("TypeError: undefined is not iterable")
    [] k = "groupBy" ->
         Throws("TypeError: Object.groupBy called on null or undefined")
    [] OTHER -> Throws(ToObjectError)

\* f() with this = the object f was read from, on runtime rt.
Call(rt, this, f) ==
  CASE f = "Object" -> Returns(ObjectValue("{}"))
    [] f = "Function" -> Returns(FunctionValue("anonymous"))
    [] f = "Function.prototype" -> Returns(Undefined)
    [] f = "Function.prototype.toString" ->
         Returns(Str("function " \o FunctionName(this)
                     \o "() { [native code] }"))
    [] f \in {"Function.prototype.call", "Function.prototype.apply"} ->
         CallWithoutThis(this)
    [] f = "Function.prototype.bind" ->
         Returns(FunctionValue("bound " \o FunctionName(this)))
    [] f \in {"Object." \o k : k \in ObjectStatics(rt)} ->
         CallObjectStatic(CHOOSE k \in ObjectStatics(rt) :
                            f = "Object." \o k)
    [] OTHER ->
         CallObjectProtoMethod(
           CHOOSE k \in ObjectProtoMethods : f = "Object.prototype." \o k,
           this)

\* exchanges[search] && exchanges[search][method]
\*   ? await exchanges[search][method]() : 'Error exchanging messages'
\* "routine": a routine of the table is run; "invalid": the lookup is
\* falsy; "throws": the lookup or the call throws; "returns": an inherited
\* function is called and its value returned.
DispatchOutcome(rt, search, method) ==
  LET t == PropGet(rt, "exchanges", search) IN
  IF t \in Falsy THEN [kind |-> "invalid", v |-> ""]
  ELSE LET f == PropGet(rt, t, method) IN
       CASE f \in Falsy -> [kind |-> "invalid", v |-> ""]
         [] f = "routine" -> [kind |-> "routine", v |-> ""]
         [] f = "throws" ->
              Throws("TypeError: 'caller', 'callee', and 'arguments' "
                     \o "properties may not be accessed on strict mode "
                     \o "functions or the arguments objects for calls to "
                     \o "them")
         [] f \notin Callables(rt) ->
              Throws("TypeError: exchanges[search][method] is not a function")
         [] OTHER -> Call(rt, t, f)

Dispatch(rt, search, method) == DispatchOutcome(rt, search, method).kind

\* exchange's catch: 'Error exchanging messages: ' + e
ExchangeCatch(r, e) == Finish(r, Str("Error exchanging messages: " \o e))

\* Semantic routines that ask for the completion without the retrieval.
RoutineStart_NoRetrieval(r) ==
  IF r.search = "generative"
    THEN Issue(r, "generate", "generate." \o r.method)
    ELSE Issue(r, "completion", "completion")

\* The routine of a table entry up to its first await.
RoutineStart(r) ==
  IF r.search = "generative"
    THEN Issue(r, "generate", "generate." \o r.method)
    ELSE Issue(r, "query", "query." \o r.method)

\* exchange from the read of this.dataCollection to the first await of the
\* routine.  dc is this.dataCollection at that moment.
ExchangeResume(r, dc, rt) ==
  IF dc = NULL THEN Finish(r, Str("Error getting collection collection"))
  ELSE LET r1 == [r EXCEPT !.collection = dc]
           d == DispatchOutcome(rt, r.search, r.method) IN
       CASE d.kind = "routine" -> RoutineStart(r1)
         [] d.kind = "invalid" -> Finish(r1, Str("Error exchanging messages"))
         [] d.kind = "returns" -> Finish(r1, d.v)
         [] OTHER -> ExchangeCatch(r1, d.v)

\* exchange from its entry to its first await.  mgr is
\* this.weaviateDataManager and dc its dataCollection at the call.
ExchangeStart_AlwaysOpen(r, mgr, dc, rt) ==
  IF mgr = NULL THEN Finish(r, Str("Error getting weaviate data manager"))
  ELSE GetClientStart(r)

\* An exchange that does not retry the open after one that failed.
ExchangeStart_Sticky(r, mgr, dc, rt) ==
  IF mgr = NULL THEN Finish(r, Str("Error getting weaviate data manager"))
  ELSE IF dc = NULL
    THEN IF r.lastOpenCause # ""
           THEN Finish(r, Str("Error getting collection collection"))
           ELSE GetClientStart(r)
    ELSE ExchangeResume(r, dc, rt)

ExchangeStart(r, mgr, dc, rt) ==
  IF mgr = NULL THEN Finish(r, Str("Error getting weaviate data manager"))
  ELSE IF dc = NULL THEN GetClientStart(r)
  ELSE ExchangeResume(r, dc, rt)

\* discordxchange from the read of this.dataCollection to its first await.
DiscordResume(r, dc) ==
  IF dc = NULL THEN Finish(r, Str("Error getting collection collection"))
  ELSE Issue([r EXCEPT !.collection = dc], "typing", "typing")

\* discordxchange from its entry to its first await.
DiscordStart(r, mgr, dc) ==
  IF mgr = NULL THEN Finish(r, Str("Error getting weaviate data manager"))
  ELSE IF dc = NULL THEN GetClientStart(r)
  ELSE DiscordResume(r, dc)

\* generateResponse / discordSemanticGen: the value made of the completion
\* answer ("ok" is handled by the caller for the transport routine).
CompletionValue(outcome) ==
  CASE outcome = "ok" -> ReplyText
    [] outcome = "detail" -> DetailArray
    [] outcome = "nodetail" -> Undefined
    [] outcome = "detailFalse" -> Bool(FALSE)
    [] outcome = "jsonThrow" ->
         Str("An error occurred while generating response: " \o JsonError)
    [] OTHER -> Str("An error occurred while generating response: "
                    \o CompletionError)

\* The generative routines after the insert of the assistant turn.
GenerativeAfterInsert(r, stored) ==
  Finish(r, IF Truthy(stored) THEN r.response
            ELSE Str("Error adding ai response to history"))

\* The generative routines after generate.hybrid / generate.nearText.
GenerativeAfterGenerate_AlwaysStore(r, generated, dc, t, id) ==
  LET r1 == [r EXCEPT !.response = generated]
      r2 == AddHistoryMessage(r1, "assistant", generated, dc, t, id) IN
  IF r2.pc = "ret" THEN GenerativeAfterInsert(r2, r2.sub) ELSE r2

GenerativeAfterGenerate(r, generated, dc, t, id) ==
  LET r1 == [r EXCEPT !.response = generated] IN
  IF ~Truthy(generated) THEN Finish(r1, Str("Error generating response"))
  ELSE LET r2 == AddHistoryMessage(r1, "assistant", generated, dc, t, id) IN
       IF r2.pc = "ret" THEN GenerativeAfterInsert(r2, r2.sub) ELSE r2

\* The semantic routines after query.hybrid / query.nearText: the
\* completion request is sent with the retrieved objects.
SemanticAfterQuery(r, ctx) ==
  Issue([r EXCEPT !.ctx = ctx], "completion", "completion")

\* The semantic routines after addHistoryMessagePair.
SemanticAfterPair(r, v) == Finish([r EXCEPT !.pairRet = v], r.response)

\* The semantic routines after generateResponse.
SemanticAfterCompletion_SkipOnFailure(r, outcome, dc, t, id) ==
  LET v == CompletionValue(outcome)
      resp == IF r.method = "nearText" THEN TemplateString(v) ELSE v
      r1 == [r EXCEPT !.comp = outcome, !.response = resp] IN
  IF outcome # "ok" THEN Finish(r1, resp)
  ELSE LET r2 == AddHistoryMessagePair(r1, UserQuery, resp, dc, t, id) IN
       IF r2.pc = "ret" THEN SemanticAfterPair(r2, r2.sub) ELSE r2

SemanticAfterCompletion(r, outcome, dc, t, id) ==
  LET v == CompletionValue(outcome)
      resp == IF r.method = "nearText" THEN TemplateString(v) ELSE v
      r1 == [r EXCEPT !.comp = outcome, !.response = resp]
      r2 == AddHistoryMessagePair(r1, UserQuery, resp, dc, t, id) IN
  IF r2.pc = "ret" THEN SemanticAfterPair(r2, r2.sub) ELSE r2

\* discordxchange: the second StoreDiscordMessagePayload and the return.
DiscordStoreAssistant(r, dc, id) ==
  LET r2 == StoreDiscordMessagePayload(r, "storeAssistant", "assistant",
                                       Structured(r.response), dc, id) IN
  IF r2.pc = "ret" THEN Finish(r2, r.response) ELSE r2

\* discordxchange after discordSemanticGen returned response.
DiscordStoreUser(r, response, dc, id) ==
  LET r1 == [r EXCEPT !.response = response]
      r2 == StoreDiscordMessagePayload(r1, "storeUser", "user",
                                       Structured(InputPayload), dc, id) IN
  IF r2.pc = "ret" THEN [r2 EXCEPT !.pc = "storedUser"] ELSE r2

\* openCollectionChannel returns.  ok: its boolean; cause: the error it
\* caught.  A direct caller gets the boolean; exchange and discordxchange
\* await the promise and resume in a later step (OpenCollectionChannelReturned).
AfterOpen_SurfaceCause(r, ok, cause) ==
  LET r1 == [r EXCEPT !.openRet = IF ok THEN Bool(TRUE) ELSE Str(cause),
                      !.cause = cause] IN
  IF r.op \in {"exchange", "discordxchange"}
    THEN [r1 EXCEPT !.pc = "opened"]
    ELSE Finish(r1, r1.openRet)

AfterOpen(r, ok, cause) ==
  LET r1 == [r EXCEPT !.openRet = Bool(ok), !.cause = cause] IN
  IF r.op \in {"exchange", "discordxchange"}
    THEN [r1 EXCEPT !.pc = "opened"]
    ELSE Finish(r1, r1.openRet)

\* exchange / discordxchange resume after `await openCollectionChannel()`
\* and read this.dataCollection (dc) as it is then.
AfterOpenAwait(r, dc, rt) ==
  IF r.op = "exchange" THEN ExchangeResume(r, dc, rt)
  ELSE DiscordResume(r, dc)

\* initialize's catch: return e.message || e
InitializeFailed(r, message, cause) ==
  Finish([r EXCEPT !.openRet = Str(message), !.cause = cause], Str(message))

\* An Error object with the given message.
ErrorValue(message) == [t |-> "error", v |-> message]
\* The WeaviateClient getClient resolves to.
ClientValue == [t |-> "object", v |-> CLIENT]

\* A getClient whose catch lets the error through.
GetClientCatch_Rethrow(cause) == Thrown(cause)

\* getClient's catch: return new Error(e.message || e)
GetClientCatch(cause) == ErrorValue(cause)

\* getClient failed.  Given an Error, initialize and openCollectionChannel
\* throw 'Error initializing client: ' + message into their own catch; an
\* exception of getClient would reach the same catch as it is.  A direct
\* caller of getClient gets what the catch of getClient returns.
GetClientFailed(r, cause) ==
  LET v == GetClientCatch(cause)
      r1 == [r EXCEPT !.getClientRet = v] IN
  CASE r.op = "getClient" -> Finish([r1 EXCEPT !.cause = cause], v)
    [] r.op = "initialize" ->
         InitializeFailed(r1, IF v.t = "error"
                                THEN "Error initializing client: " \o v.v
                                ELSE v.v, cause)
    [] OTHER -> AfterOpen(r1, FALSE, cause)

\* getClient returned the client: a direct caller gets it; initialize and
\* openCollectionChannel set this.client and go on to createCollection
\* (initialize) or collections.exists.
GetClientReturned(r, cl) ==
  LET r1 == [r EXCEPT !.getClientRet = ClientValue] IN
  CASE r.op = "getClient" -> Finish(r1, ClientValue)
    [] r.op = "initialize" ->
         LET r2 == CreateCollectionStart(r1, cl) IN
         IF r2.pc = "ret" THEN [r2 EXCEPT !.pc = "created"] ELSE r2
    [] OTHER -> Issue(r1, "exists", "exists")

\* while (!isReady) await timer: isReady is the constant read once.
ReadyLoop(r) == IF ~r.isReady THEN "sleeping" ELSE "ready"

\* openCollectionChannel after collections.exists answered.
AfterExists_AlwaysCreate(r, exists, cl) ==
  LET r1 == [r EXCEPT !.exists = IF exists THEN "yes" ELSE "no"]
      r2 == CreateCollectionStart(r1, cl) IN
  IF r2.pc = "ret" THEN [r2 EXCEPT !.pc = "created"] ELSE r2

AfterExists(r, exists, cl) ==
  LET r1 == [r EXCEPT !.exists = IF exists THEN "yes" ELSE "no"] IN
  IF exists THEN AfterOpen(r1, TRUE, "")
  ELSE LET r2 == CreateCollectionStart(r1, cl) IN
       IF r2.pc = "ret" THEN [r2 EXCEPT !.pc = "created"] ELSE r2

\* The value createCollection resolves to when the create succeeded.
CollectionValue == [t |-> "object", v |-> HANDLE]

\* createCollection after collections.create answered: the collection, or
\* null from its catch.  A direct caller gets that value; initialize and
\* openCollectionChannel await it and resume in a later step.
CreateCollectionEnd(r, v) ==
  IF r.op = "createCollection" THEN Finish([r EXCEPT !.sub = v], v)
  ELSE [r EXCEPT !.pc = "created", !.sub = v]

\* initialize / openCollectionChannel after `await this.createCollection()`
\* gave v, which is already assigned to this.dataCollection.
AfterCreateCollection(r, v) ==
  IF r.op = "initialize"
    THEN IF v = Null
           THEN InitializeFailed(r,
                  "Error initializing: could not create collection",
                  CreateError)
           ELSE Finish([r EXCEPT !.openRet = Bool(TRUE)], Bool(TRUE))
    ELSE IF v = Null THEN AfterOpen(r, FALSE, CreateError)
         ELSE AfterOpen(r, TRUE, "")

\* The routine or method awaiting a single insert goes on.
AfterStore(r, v, dc, id) ==
  LET r0 == [r EXCEPT !.pending = <<>>, !.sub = v] IN
  CASE r.op \in {"addHistoryMessage", "StoreDiscordMessagePayload"} ->
         Finish(r0, v)
    [] r.pc = "storeUser" -> DiscordStoreAssistant(r0, dc, id)
    [] r.pc = "storeAssistant" -> Finish(r0, r0.response)
    [] OTHER -> GenerativeAfterInsert(r0, v)

\* The routine or direct caller awaiting addHistoryMessagePair goes on.
AfterPair(r, v, batch) ==
  LET r0 == [r EXCEPT !.pending = <<>>, !.sub = v, !.batch = batch] IN
  IF r.op = "exchange" THEN SemanticAfterPair(r0, v)
  ELSE Finish([r0 EXCEPT !.pairRet = v], v)

Roles(es) == [i \in 1..Len(es) |-> es[i].role]

\* The objects known to the store or on their way to it.
Known == {entries[i] : i \in 1..Len(entries)}
           \cup UNION {{calls[c].pending[i] : i \in 1..Len(calls[c].pending)}
                        : c \in Callers}

Max(S) == CHOOSE x \in S : \A y \in S : y <= x

\* uuidv4(): identifiers no known object has (nextId and the ones after it).
nextId == IF Known = {} THEN 0 ELSE 1 + Max({e.id : e \in Known})

\* new Date().toISOString(): two reads of the clock may give the same
\* value, a later one or (the wall clock stepping back) an earlier one.
Clock == {"T1", "T2"}

\* ------------------------------------------------------------- actions
\* A finished call returns to its caller before any other step is taken.
NoneDone == \A c \in Callers : calls[c].pc # "done"

\* Caller c awaits the answer to the request of one of the places pcs.
At(c, pcs) == NoneDone /\ calls[c].pc \in pcs

Idle(c) == At(c, {"idle"}) /\ started < MaxCalls

Step(c, r) ==
  /\ calls' = [calls EXCEPT ![c] = r]
  /\ UNCHANGED ctorVars

Begin(c, op) ==
  [Fresh EXCEPT !.op = op, !.heldAtStart = (dataCollection # NULL),
                !.lastOpenCause = calls[c].lastOpenCause]

CallExchange(c, search, method) ==
  /\ Idle(c)
  /\ started' = started + 1
  /\ LET r == [Begin(c, "exchange") EXCEPT !.search = search,
                                            !.method = method] IN
     Step(c, ExchangeStart(r, weaviateDataManager, dataCollection, runtime))
  /\ UNCHANGED <<weaviateDataManager, client, dataCollection, collExists,
                 remoteReady, entries>>

CallDiscordxchange(c) ==
  /\ Idle(c)
  /\ started' = started + 1
  /\ LET r == Begin(c, "discordxchange") IN
     Step(c, DiscordStart(r, weaviateDataManager, dataCollection))
  /\ UNCHANGED <<weaviateDataManager, client, dataCollection, collExists,
                 remoteReady, entries>>

CallInitialize(c) ==
  /\ Idle(c)
  /\ weaviateDataManager # NULL
  /\ started' = started + 1
  /\ Step(c, GetClientStart(Begin(c, "initialize")))
  /\ UNCHANGED <<weaviateDataManager, client, dataCollection, collExists,
                 remoteReady, entries>>

CallOpenCollectionChannel(c) ==
  /\ Idle(c)
  /\ weaviateDataManager # NULL
  /\ started' = started + 1
  /\ Step(c, GetClientStart(Begin(c, "openCollectionChannel")))
  /\ UNCHANGED <<weaviateDataManager, client, dataCollection, collExists,
                 remoteReady, entries>>

CallAddHistoryMessagePair(c, t) ==
  /\ Idle(c)
  /\ weaviateDataManager # NULL
  /\ started' = started + 1
  /\ LET r == AddHistoryMessagePair(Begin(c, "addHistoryMessagePair"),
                                    UserQuery, ReplyText, dataCollection,
                                    t, nextId) IN
     Step(c, IF r.pc = "ret" THEN Finish([r EXCEPT !.pairRet = r.sub], r.sub)
             ELSE r)
  /\ UNCHANGED <<weaviateDataManager, client, dataCollection, collExists,
                 remoteReady, entries>>

\* A direct call of addHistoryMessage(role, content).
CallAddHistoryMessage(c, role, t) ==
  /\ Idle(c)
  /\ weaviateDataManager # NULL
  /\ started' = started + 1
  /\ LET r == AddHistoryMessage(
                [Begin(c, "addHistoryMessage") EXCEPT !.role = role], role,
                ReplyText, dataCollection, t, nextId) IN
     Step(c, IF r.pc = "ret" THEN Finish(r, r.sub) ELSE r)
  /\ UNCHANGED <<weaviateDataManager, client, dataCollection, collExists,
                 remoteReady, entries>>

\* A direct call of StoreDiscordMessagePayload(role, params).
CallStoreDiscordMessagePayload(c, role, params) ==
  /\ Idle(c)
  /\ weaviateDataManager # NULL
  /\ started' = started + 1
  /\ LET r == StoreDiscordMessagePayload(
                [Begin(c, "StoreDiscordMessagePayload") EXCEPT !.role = role],
                "insert", role, params, dataCollection, nextId) IN
     Step(c, IF r.pc = "ret" THEN Finish([r EXCEPT !.params = params], r.sub)
             ELSE r)
  /\ UNCHANGED <<weaviateDataManager, client, dataCollection, collExists,
                 remoteReady, entries>>

\* A direct call of createCollection().
CallCreateCollection(c) ==
  /\ Idle(c)
  /\ weaviateDataManager # NULL
  /\ started' = started + 1
  /\ LET r == CreateCollectionStart(Begin(c, "createCollection"), client) IN
     Step(c, IF r.pc = "ret" THEN Finish(r, r.sub) ELSE r)
  /\ UNCHANGED <<weaviateDataManager, client, dataCollection, collExists,
                 remoteReady, entries>>

\* A direct call of getClient().
CallGetClient(c) ==
  /\ Idle(c)
  /\ weaviateDataManager # NULL
  /\ started' = started + 1
  /\ Step(c, GetClientStart(Begin(c, "getClient")))
  /\ UNCHANGED <<weaviateDataManager, client, dataCollection, collExists,
                 remoteReady, entries>>

\* weaviate.connectToWeaviateCloud resolved: client.isReady() is asked.
ConnectReturns(c) ==
  /\ At(c, {"connect"})
  /\ Step(c, Issue(calls[c], "isReady", "isReady"))
  /\ UNCHANGED <<weaviateDataManager, client, dataCollection, collExists,
                 remoteReady, entries, started>>

ConnectThrows(c) ==
  /\ At(c, {"connect"})
  /\ Step(c, GetClientFailed(calls[c], ConnectError))
  /\ UNCHANGED <<weaviateDataManager, client, dataCollection, collExists,
                 remoteReady, entries, started>>

\* client.isReady() resolved: the answer is kept in the constant isReady.
IsReadyReturns(c) ==
  /\ At(c, {"isReady"})
  /\ Step(c, [calls[c] EXCEPT !.isReady = remoteReady, !.pc = "loopTest"])
  /\ UNCHANGED <<weaviateDataManager, client, dataCollection, collExists,
                 remoteReady, entries, started>>

IsReadyThrows(c) ==
  /\ At(c, {"isReady"})
  /\ Step(c, GetClientFailed(calls[c], ReadyError))
  /\ UNCHANGED <<weaviateDataManager, client, dataCollection, collExists,
                 remoteReady, entries, started>>

\* The test of the while loop of getClient.
LoopTest(c) ==
  /\ At(c, {"loopTest"})
  /\ IF ReadyLoop(calls[c]) = "sleeping"
       THEN /\ Step(c, [calls[c] EXCEPT !.pc = "sleeping"])
            /\ UNCHANGED client
       ELSE /\ client' = IF calls[c].op = "getClient" THEN client ELSE CLIENT
            /\ Step(c, GetClientReturned(calls[c], CLIENT))
  /\ UNCHANGED <<weaviateDataManager, dataCollection, collExists,
                 remoteReady, entries, started>>

\* The 2 s timer of the loop fired.
TimerFires(c) ==
  /\ At(c, {"sleeping"})
  /\ Step(c, [calls[c] EXCEPT !.pc = "loopTest"])
  /\ UNCHANGED <<weaviateDataManager, client, dataCollection, collExists,
                 remoteReady, entries, started>>

ExistsReturns(c) ==
  /\ At(c, {"exists"})
  /\ dataCollection' = IF collExists THEN HANDLE ELSE dataCollection
  /\ Step(c, AfterExists(calls[c], collExists, client))
  /\ UNCHANGED <<weaviateDataManager, client, collExists, remoteReady,
                 entries, started>>

ExistsThrows(c) ==
  /\ At(c, {"exists"})
  /\ Step(c, AfterOpen(calls[c], FALSE, ExistsError))
  /\ UNCHANGED <<weaviateDataManager, client, dataCollection, collExists,
                 remoteReady, entries, started>>

\* collections.create resolved: the store made the collection and
\* createCollection returns it.
CreateReturns(c) ==
  /\ At(c, {"create"})
  /\ ~collExists
  /\ collExists' = TRUE
  /\ Step(c, CreateCollectionEnd(calls[c], CollectionValue))
  /\ UNCHANGED <<weaviateDataManager, client, dataCollection, remoteReady,
                 entries, started>>

\* collections.create rejected (the name exists, or any other failure):
\* createCollection returns null from its catch.
CreateThrows(c) ==
  /\ At(c, {"create"})
  /\ Step(c, CreateCollectionEnd(calls[c], Null))
  /\ UNCHANGED <<weaviateDataManager, client, dataCollection, collExists,
                 remoteReady, entries, started>>

\* `this.dataCollection = await this.createCollection()`: initialize or
\* openCollectionChannel resumes, assigns what createCollection returned
\* and goes on (openCollectionChannel, given a collection, assigns the
\* handle of collections.get and returns true).
CreateCollectionReturned(c) ==
  /\ At(c, {"created"})
  /\ dataCollection' = IF calls[c].sub = Null THEN NULL ELSE HANDLE
  /\ Step(c, AfterCreateCollection(calls[c], calls[c].sub))
  /\ UNCHANGED <<weaviateDataManager, client, collExists, remoteReady,
                 entries, started>>

\* `await this.weaviateDataManager.openCollectionChannel()`: exchange or
\* discordxchange resumes and reads this.dataCollection.
OpenCollectionChannelReturned(c) ==
  /\ At(c, {"opened"})
  /\ Step(c, AfterOpenAwait(calls[c], dataCollection, runtime))
  /\ UNCHANGED <<weaviateDataManager, client, dataCollection, collExists,
                 remoteReady, entries, started>>

\* generate.hybrid / generate.nearText resolved with result.generated.
GenerateReturns(c, generated, t) ==
  /\ At(c, {"generate"})
  /\ Step(c, GenerativeAfterGenerate(calls[c], generated, dataCollection,
                                     t, nextId))
  /\ UNCHANGED <<weaviateDataManager, client, dataCollection, collExists,
                 remoteReady, entries, started>>

GenerateThrows(c) ==
  /\ At(c, {"generate"})
  /\ Step(c, ExchangeCatch(calls[c], "Error: " \o GenerateError))
  /\ UNCHANGED <<weaviateDataManager, client, dataCollection, collExists,
                 remoteReady, entries, started>>

\* query.hybrid / query.nearText resolved with the retrieved objects.
QueryReturns(c, ctx) ==
  /\ At(c, {"query"})
  /\ ctx = "some" => entries # <<>>
  /\ Step(c, SemanticAfterQuery(calls[c], ctx))
  /\ UNCHANGED <<weaviateDataManager, client, dataCollection, collExists,
                 remoteReady, entries, started>>

\* The query rejected: exchange catches it, discordxchange does not.
QueryThrows(c) ==
  /\ At(c, {"query"})
  /\ Step(c, IF calls[c].op = "exchange"
               THEN ExchangeCatch(calls[c], "Error: " \o QueryError)
               ELSE Finish(calls[c], Thrown(QueryError)))
  /\ UNCHANGED <<weaviateDataManager, client, dataCollection, collExists,
                 remoteReady, entries, started>>

\* HistoryCompletion / DiscordCompletion resolved with the HTTP response:
\* response.json() is awaited.
CompletionReturns(c) ==
  /\ At(c, {"completion"})
  /\ Step(c, [calls[c] EXCEPT !.pc = "json"])
  /\ UNCHANGED <<weaviateDataManager, client, dataCollection, collExists,
                 remoteReady, entries, started>>

\* generateResponse / discordSemanticGen caught an error of the completion
\* call (outcome "throw") or of response.json() ("jsonThrow") and returned
\* its message; the routine goes on to its write.
CompletionCaught(r, outcome, dc, t, id) ==
  IF r.op = "exchange"
    THEN SemanticAfterCompletion(r, outcome, dc, t, id)
    ELSE DiscordStoreUser([r EXCEPT !.comp = outcome],
                          CompletionValue(outcome), dc, id)

CompletionThrows(c, t) ==
  /\ At(c, {"completion"})
  /\ Step(c, CompletionCaught(calls[c], "throw", dataCollection, t, nextId))
  /\ UNCHANGED <<weaviateDataManager, client, dataCollection, collExists,
                 remoteReady, entries, started>>

\* response.json() resolved with the parsed body: outcome "ok"
\* (response.ok), "detail" or "nodetail" (a failure body with or without a
\* detail array) or "detailFalse" (a failure body whose detail is false,
\* which `parsed.detail && ...` hands on as it is).
JsonReturns(c, outcome, t) ==
  /\ At(c, {"json"})
  /\ Step(c, IF calls[c].op = "exchange"
               THEN SemanticAfterCompletion(calls[c], outcome, dataCollection,
                                            t, nextId)
             ELSE IF outcome = "ok"
               THEN Issue([calls[c] EXCEPT !.comp = outcome], "send", "send")
             ELSE DiscordStoreUser([calls[c] EXCEPT !.comp = outcome],
                                   CompletionValue(outcome), dataCollection,
                                   nextId))
  /\ UNCHANGED <<weaviateDataManager, client, dataCollection, collExists,
                 remoteReady, entries, started>>

JsonThrows(c, t) ==
  /\ At(c, {"json"})
  /\ Step(c, CompletionCaught(calls[c], "jsonThrow", dataCollection, t,
                              nextId))
  /\ UNCHANGED <<weaviateDataManager, client, dataCollection, collExists,
                 remoteReady, entries, started>>

\* typingIndicator resolved: the hybrid query is sent.
TypingReturns(c) ==
  /\ At(c, {"typing"})
  /\ Step(c, Issue(calls[c], "query", "query.hybrid"))
  /\ UNCHANGED <<weaviateDataManager, client, dataCollection, collExists,
                 remoteReady, entries, started>>

TypingThrows(c) ==
  /\ At(c, {"typing"})
  /\ Step(c, Finish(calls[c], Thrown(TypingError)))
  /\ UNCHANGED <<weaviateDataManager, client, dataCollection, collExists,
                 remoteReady, entries, started>>

\* sendMessage resolved with the sent message.
SendReturns(c) ==
  /\ At(c, {"send"})
  /\ Step(c, DiscordStoreUser(calls[c], MessageObject, dataCollection,
                              nextId))
  /\ UNCHANGED <<weaviateDataManager, client, dataCollection, collExists,
                 remoteReady, entries, started>>

SendThrows(c) ==
  /\ At(c, {"send"})
  /\ Step(c, DiscordStoreUser(calls[c],
               Str("An error occurred while generating response: "
                   \o SendError),
               dataCollection, nextId))
  /\ UNCHANGED <<weaviateDataManager, client, dataCollection, collExists,
                 remoteReady, entries, started>>

\* `await StoreDiscordMessagePayload("user", input)` returned without a
\* request having been sent: discordxchange resumes with its second write,
\* which reads this.dataCollection again.
StoreDiscordMessagePayloadReturned(c) ==
  /\ At(c, {"storedUser"})
  /\ Step(c, DiscordStoreAssistant(calls[c], dataCollection, nextId))
  /\ UNCHANGED <<weaviateDataManager, client, dataCollection, collExists,
                 remoteReady, entries, started>>

\* data.insert resolved: the object is in the collection.
InsertReturns(c) ==
  /\ At(c, {"insert", "storeUser", "storeAssistant"})
  /\ entries' = entries \o calls[c].pending
  /\ Step(c, AfterStore([calls[c] EXCEPT
                           !.added = @ \o Roles(calls[c].pending)],
                        AddHistoryMessageResult(TRUE, calls[c].pending[1]),
                        dataCollection, nextId))
  /\ UNCHANGED <<weaviateDataManager, client, dataCollection, collExists,
                 remoteReady, started>>

InsertThrows(c) ==
  /\ At(c, {"insert", "storeUser", "storeAssistant"})
  /\ Step(c, AfterStore(calls[c],
                        AddHistoryMessageResult(FALSE, calls[c].pending[1]),
                        dataCollection, nextId))
  /\ UNCHANGED <<weaviateDataManager, client, dataCollection, collExists,
                 remoteReady, entries, started>>

\* data.insertMany resolved: each of the two sub-inserts succeeded or not,
\* the ones that succeeded are stored and hasErrors tells of the others.
InsertManyReturns(c, okUser, okAssistant) ==
  /\ At(c, {"insertMany"})
  /\ LET p == calls[c].pending
         kept == (IF okUser THEN <<p[1]>> ELSE <<>>)
                   \o (IF okAssistant THEN <<p[2]>> ELSE <<>>) IN
     /\ entries' = entries \o kept
     /\ Step(c, AfterPair([calls[c] EXCEPT !.added = @ \o Roles(kept)],
                          PairResult(FALSE, ~(okUser /\ okAssistant)),
                          CASE okUser /\ okAssistant -> "ok"
                            [] okUser -> "assistantFailed"
                            [] okAssistant -> "userFailed"
                            [] OTHER -> "bothFailed"))
  /\ UNCHANGED <<weaviateDataManager, client, dataCollection, collExists,
                 remoteReady, started>>

InsertManyThrows(c) ==
  /\ At(c, {"insertMany"})
  /\ Step(c, AfterPair(calls[c], PairResult(TRUE, FALSE), "throw"))
  /\ UNCHANGED <<weaviateDataManager, client, dataCollection, collExists,
                 remoteReady, entries, started>>

\* The promise of a finished call resolves and its caller takes the result.
\* Nothing reads the record of a finished call, so it is dropped before any
\* other step is taken; what is remembered of it is why its open failed, if
\* it was an exchange call that returned for lack of a collection.
Returned(c) ==
  /\ calls[c].pc = "done"
  /\ calls' = [calls EXCEPT ![c] =
                 [Fresh EXCEPT !.lastOpenCause =
                    IF /\ calls[c].op = "exchange"
                       /\ calls[c].ret = Str("Error getting collection collection")
                      THEN calls[c].cause ELSE ""]]
  /\ UNCHANGED ctorVars
  /\ UNCHANGED <<weaviateDataManager, client, dataCollection, collExists,
                 remoteReady, entries, started>>

\* ---------------------------------------------------------- environment
\* The remote store becomes ready, and stays so.
RemoteBecomesReady ==
  /\ NoneDone
  /\ ~remoteReady
  /\ remoteReady' = TRUE
  /\ UNCHANGED ctorVars
  /\ UNCHANGED <<weaviateDataManager, client, dataCollection, collExists,
                 entries, started, calls>>

\* Another instance creates the collection of the same name.
OtherInstanceCreates ==
  /\ NoneDone
  /\ ~collExists
  /\ collExists' = TRUE
  /\ UNCHANGED ctorVars
  /\ UNCHANGED <<weaviateDataManager, client, dataCollection, remoteReady,
                 entries, started, calls>>

\* ------------------------------------------------------- specification
\* new WeaviateDataManager(type, collection, modelProvider, modelApiKey)
Construct(type, collection) ==
  /\ exchangeType = type
  /\ collectionArg = collection
  /\ dataCollectionName = DataCollectionName(type, collection)

Init ==
  /\ Construct("history", TestRoom)
  /\ weaviateDataManager \in {"manager", NULL}
  /\ client = NULL
  /\ dataCollection = NULL
  /\ collExists \in BOOLEAN
  /\ remoteReady \in BOOLEAN
  /\ entries = <<>>
  /\ started = 0
  /\ runtime \in Runtimes
  /\ calls = [c \in Callers |-> Fresh]

Generated == {Null, Str(""), ReplyText}
UserTypes == {"user", "assistant"}
Outcomes == {"ok", "detail", "nodetail", "detailFalse"}

Next ==
  \/ \E c \in Callers : Returned(c)
  \/ \E s \in Searches, m \in Methods : CallExchange("h", s, m)
  \/ CallDiscordxchange("h")
  \/ CallInitialize("m")
  \/ CallOpenCollectionChannel("m")
  \/ \E t \in Clock : CallAddHistoryMessagePair("m", t)
  \/ \E role \in UserTypes, t \in Clock : CallAddHistoryMessage("m", role, t)
  \/ CallCreateCollection("m")
  \/ CallGetClient("m")
  \/ \E c \in Callers : ConnectReturns(c)
  \/ \E c \in Callers : ConnectThrows(c)
  \/ \E c \in Callers : IsReadyReturns(c)
  \/ \E c \in Callers : IsReadyThrows(c)
  \/ \E c \in Callers : LoopTest(c)
  \/ \E c \in Callers : TimerFires(c)
  \/ \E c \in Callers : ExistsReturns(c)
  \/ \E c \in Callers : ExistsThrows(c)
  \/ \E c \in Callers : CreateReturns(c)
  \/ \E c \in Callers : CreateThrows(c)
  \/ \E c \in Callers : CreateCollectionReturned(c)
  \/ \E c \in Callers : OpenCollectionChannelReturned(c)
  \/ \E c \in Callers, g \in Generated, t \in Clock : GenerateReturns(c, g, t)
  \/ \E c \in Callers : GenerateThrows(c)
  \/ \E c \in Callers, x \in {"empty", "some"} : QueryReturns(c, x)
  \/ \E c \in Callers : QueryThrows(c)
  \/ \E c \in Callers : CompletionReturns(c)
  \/ \E c \in Callers, t \in Clock : CompletionThrows(c, t)
  \/ \E c \in Callers, o \in Outcomes, t \in Clock : JsonReturns(c, o, t)
  \/ \E c \in Callers, t \in Clock : JsonThrows(c, t)
  \/ \E c \in Callers : TypingReturns(c)
  \/ \E c \in Callers : TypingThrows(c)
  \/ \E c \in Callers : SendReturns(c)
  \/ \E c \in Callers : SendThrows(c)
  \/ \E c \in Callers : StoreDiscordMessagePayloadReturned(c)
  \/ \E c \in Callers : InsertReturns(c)
  \/ \E c \in Callers : InsertThrows(c)
  \/ \E c \in Callers, u \in BOOLEAN, a \in BOOLEAN : InsertManyReturns(c, u, a)
  \/ \E c \in Callers : InsertManyThrows(c)
  \/ RemoteBecomesReady
  \/ OtherInstanceCreates

Spec == Init /\ [][Next]_vars

\* Fairness: every request in flight is answered, every armed timer fires
\* and every resumed call runs on.
Progress(c) ==
  \/ Returned(c)
  \/ ConnectReturns(c)
  \/ IsReadyReturns(c)
  \/ LoopTest(c)
  \/ TimerFires(c)
  \/ ExistsReturns(c)
  \/ CreateReturns(c)
  \/ CreateThrows(c)
  \/ CreateCollectionReturned(c)
  \/ OpenCollectionChannelReturned(c)
  \/ \E g \in Generated, t \in Clock : GenerateReturns(c, g, t)
  \/ QueryReturns(c, "empty")
  \/ CompletionReturns(c)
  \/ \E o \in Outcomes, t \in Clock : JsonReturns(c, o, t)
  \/ StoreDiscordMessagePayloadReturned(c)
  \/ TypingReturns(c)
  \/ SendReturns(c)
  \/ InsertReturns(c)
  \/ InsertManyReturns(c, TRUE, TRUE)

LiveSpec == Spec /\ \A c \in Callers : WF_vars(Progress(c))

\* Direct calls of StoreDiscordMessagePayload with every payload and role,
\* on a manager whose collection is open or was never opened.
PayloadInit ==
  /\ Construct("discord", TestRoom)
  /\ weaviateDataManager = "manager"
  /\ dataCollection \in {HANDLE, NULL}
  /\ client = IF dataCollection = HANDLE THEN CLIENT ELSE NULL
  /\ collExists = (dataCollection = HANDLE)
  /\ remoteReady = TRUE
  /\ entries = <<>>
  /\ started = 0
  /\ runtime \in Runtimes
  /\ calls = [c \in Callers |-> Fresh]

PayloadNext ==
  \/ \E role \in UserTypes, params \in Payloads :
       CallStoreDiscordMessagePayload("m", role, params)
  \/ InsertReturns("m")
  \/ InsertThrows("m")
  \/ Returned("m")

PayloadSpec == PayloadInit /\ [][PayloadNext]_vars

\* Managers constructed with every source kind and logical name, on which
\* the operations that use the name are called.
NameInit ==
  /\ \E type \in SourceTypes, collection \in LogicalNames :
       Construct(type, collection)
  /\ weaviateDataManager = "manager"
  /\ client = NULL
  /\ dataCollection = NULL
  /\ collExists \in BOOLEAN
  /\ remoteReady = TRUE
  /\ entries = <<>>
  /\ started = 0
  /\ runtime \in Runtimes
  /\ calls = [c \in Callers |-> Fresh]

NameNext ==
  \/ CallInitialize("m")
  \/ CallOpenCollectionChannel("m")
  \/ ConnectReturns("m")
  \/ IsReadyReturns("m")
  \/ LoopTest("m")
  \/ ExistsReturns("m")
  \/ CreateReturns("m")
  \/ CreateThrows("m")
  \/ CreateCollectionReturned("m")
  \/ Returned("m")

NameSpec == NameInit /\ [][NameNext]_vars

\* ------------------------------------------------------------- claims
Done(c) == calls[c].pc = "done"
Range(q) == {q[i] : i \in 1..Len(q)}
Count(q, x) == Cardinality({i \in 1..Len(q) : q[i] = x})
OpenRequests == {"connect", "isReady", "exists", "create"}
ValidMethods == {"hybrid", "nearText"}
\* A finished exchange call of a table routine that got past the open.
RoutineCall(c, search) ==
  /\ Done(c)
  /\ calls[c].op = "exchange"
  /\ calls[c].search = search
  /\ calls[c].method \in ValidMethods
  /\ calls[c].collection # NULL

\* C1 (as stated): every semantic exchange call on an opened collection adds
\* exactly one pair, one user and one assistant entry.
C1_ExactlyOnePairAdded ==
  \A c \in Callers :
    RoutineCall(c, "semantic") => calls[c].added = <<"user", "assistant">>

\* C1 (amended): a semantic exchange call whose retrieval query returned
\* invokes the completion once and attempts exactly one pair write, whatever
\* the completion outcome; it adds the pair (user, assistant) when both
\* sub-inserts succeed and at most one entry otherwise; when the query
\* throws, no completion and no write is made and nothing is added.
C1_OnePairWritePerSemanticCall ==
  \A c \in Callers :
    RoutineCall(c, "semantic") =>
      LET r == calls[c] IN
      /\ Count(r.log, "completion") <= 1
      /\ Count(r.log, "insertMany") <= 1
      /\ "insert" \notin Range(r.log)
      /\ r.comp # "none" =>
           /\ Count(r.log, "completion") = 1
           /\ r.pairRet # Undefined
           /\ r.batch = "none" => "insertMany" \notin Range(r.log)
      /\ r.comp = "none" =>
           /\ "completion" \notin Range(r.log)
           /\ "insertMany" \notin Range(r.log)
           /\ r.pairRet = Undefined
           /\ r.added = <<>>
      /\ r.batch = "ok" => r.added = <<"user", "assistant">>
      /\ r.batch # "ok" => Len(r.added) <= 1

\* C1 witness: the completion threw on an empty retrieval and the pair of
\* this call is all the collection holds.
C1_Witness ==
  \E c \in Callers :
    /\ RoutineCall(c, "semantic")
    /\ calls[c].comp = "throw"
    /\ calls[c].ctx = "empty"
    /\ calls[c].added = <<"user", "assistant">>
    /\ Len(entries) = 2

\* C2: a generative exchange call whose generation returned no text (null
\* or empty) issues no insert, adds nothing and returns the error string
\* 'Error generating response'.
C2_NoPersistOnEmptyGeneration ==
  \A c \in Callers :
    (RoutineCall(c, "generative") /\ calls[c].response \in {Null, Str("")}) =>
      /\ "insert" \notin Range(calls[c].log)
      /\ "insertMany" \notin Range(calls[c].log)
      /\ calls[c].added = <<>>
      /\ calls[c].ret = Str("Error generating response")

C2_Witness ==
  \E c \in Callers :
    /\ RoutineCall(c, "generative")
    /\ calls[c].response = Null
    /\ calls[c].ret = Str("Error generating response")
    /\ entries = <<>>

\* The first request of the routine of a pair.
FirstRequest(search, method) ==
  (IF search = "generative" THEN "generate." ELSE "query.") \o method

\* C3 (as stated): for the four pairs of the table exchange runs the routine
\* of the pair and returns a string; for any other pair it runs no routine
\* and returns the fixed string 'Error exchanging messages'.
C3_TableDrivenDispatch ==
  \A c \in Callers :
    (Done(c) /\ calls[c].op = "exchange" /\ calls[c].collection # NULL) =>
      LET r == calls[c] IN
      IF r.search \in {"generative", "semantic"} /\ r.method \in ValidMethods
        THEN /\ FirstRequest(r.search, r.method) \in Range(r.log)
             /\ r.ret.t = "string"
        ELSE /\ Range(r.log) \subseteq OpenRequests
             /\ r.ret = Str("Error exchanging messages")

\* C4 (as stated): whatever remote step fails, a finished exchange call
\* returned a text string, not an exception and not a non-text value.
C4_ResultIsText ==
  \A c \in Callers :
    (Done(c) /\ calls[c].op = "exchange") => calls[c].ret.t = "string"

\* C5: an exchange call started while a handle is held reuses it and issues
\* no connect, isReady, exists or create; one started while none is held
\* sends the open's requests first, before any request of a routine.
C5_LazyOpenOnce ==
  \A c \in Callers :
    (calls[c].op = "exchange" /\ weaviateDataManager # NULL) =>
      LET r == calls[c] IN
      /\ r.heldAtStart =>
           /\ Range(r.log) \cap OpenRequests = {}
           /\ r.collection = HANDLE
      /\ ~r.heldAtStart =>
           /\ r.log # <<>>
           /\ r.log[1] = "connect"
           /\ \A i, j \in 1..Len(r.log) :
                (r.log[i] \in OpenRequests /\ r.log[j] \notin OpenRequests)
                  => i < j

\* C5 witness: a second exchange call found the handle and is in its query.
C5_Witness ==
  \E c \in Callers :
    /\ calls[c].op = "exchange"
    /\ calls[c].heldAtStart
    /\ At(c, {"query"})
    /\ started = 2

\* A finished direct call of an open operation made while no handle was held.
OpenAttempt(c) ==
  /\ Done(c)
  /\ calls[c].op \in {"openCollectionChannel", "initialize"}
  /\ ~calls[c].heldAtStart

\* C6 (as stated): an open attempt from Unopened ends in Open when every
\* step succeeds, and when a step fails its caller is given the cause, not
\* only a bare false or null.
C6_FailureSurfacesCause ==
  \A c \in Callers :
    OpenAttempt(c) =>
      /\ calls[c].cause = "" => dataCollection = HANDLE
      /\ calls[c].cause # "" => calls[c].ret.t = "string"

\* C6 (amended): an open attempt from Unopened ends in Open (handle held,
\* true returned) when connect, the existence check and the create all
\* succeed; when one of them fails no handle is left by the attempt,
\* openCollectionChannel returns only false (the cause goes to the console)
\* and initialize returns the message of the error; the open made on behalf
\* of exchange and discordxchange gives them the same bare boolean.
C6_OpenOutcome ==
  /\ \A c \in Callers :
       OpenAttempt(c) =>
         LET r == calls[c] IN
         /\ r.cause = "" =>
              /\ r.ret = Bool(TRUE)
              /\ dataCollection = HANDLE
              /\ collExists
         /\ r.cause # "" =>
              /\ r.op = "openCollectionChannel" => r.ret = Bool(FALSE)
              /\ r.op = "initialize" =>
                   r.ret \in {Str("Error initializing client: " \o r.cause),
                              Str("Error initializing: could not create collection")}
              /\ started = 1 => dataCollection = NULL
  /\ \A c \in Callers :
       (calls[c].op # "initialize" /\ calls[c].openRet # Undefined) =>
         calls[c].openRet = Bool(calls[c].cause = "")

\* C6 witness: the create failed and openCollectionChannel returned false.
C6_Witness ==
  \E c \in Callers :
    /\ OpenAttempt(c)
    /\ calls[c].op = "openCollectionChannel"
    /\ calls[c].cause = CreateError
    /\ calls[c].ret = Bool(FALSE)
    /\ dataCollection = NULL

\* The create request of a call follows, in the same call, an existence
\* check that reported the collection absent.
CreateAfterAbsentCheck(r) ==
  "create" \in Range(r.log) =>
    /\ r.exists = "no"
    /\ Count(r.log, "create") = 1
    /\ \E i, j \in 1..Len(r.log) :
         i < j /\ r.log[i] = "exists" /\ r.log[j] = "create"

\* C7 (as stated): no public operation issues a create without a preceding
\* existence check, in the same operation, that reported the name absent.
C7_CreateOnlyAfterAbsentCheck ==
  \A c \in Callers : CreateAfterAbsentCheck(calls[c])

\* C7 (amended): openCollectionChannel, and exchange and discordxchange
\* through it, issue a create only after an existence check of the same
\* call reported the collection absent; initialize, and createCollection
\* called on its own, issue their create with no existence check at all.
C7_CreateCheckedExceptInitialize ==
  \A c \in Callers :
    /\ calls[c].op \notin {"initialize", "createCollection"} =>
         CreateAfterAbsentCheck(calls[c])
    /\ calls[c].op \in {"initialize", "createCollection"} =>
         /\ "exists" \notin Range(calls[c].log)
         /\ calls[c].exists = "unknown"

\* C7 witness: exchange awaits the create it sent after exists said no.
C7_Witness ==
  \E c \in Callers :
    /\ calls[c].op = "exchange"
    /\ calls[c].pc = "create"
    /\ calls[c].exists = "no"
    /\ calls[c].log = <<"connect", "isReady", "exists", "create">>

InGetClient(c) == calls[c].pc \in {"isReady", "loopTest", "sleeping"}

\* C8 (as stated): once the remote is ready, a getClient that is polling
\* for readiness eventually returns.
C8_ReturnsOnceReady ==
  \A c \in Callers : (InGetClient(c) /\ remoteReady) ~> ~InGetClient(c)

\* The objects of the last pair sent by call c that the collection holds.
StoredOfPair(c) ==
  {i \in 1..Len(entries) : entries[i] \in Range(calls[c].sent)}

\* C9: addHistoryMessagePair sends one batch of two objects, the user entry
\* then the assistant entry with the same timestamp; it returns true
\* exactly when the batch reported a failed sub-insert and false when it
\* reported none; after one failed sub-insert the result is true and only
\* the other object of the pair is in the collection.
C9_PairBatchResult ==
  \A c \in Callers :
    LET r == calls[c] IN
    /\ r.pc = "insertMany" =>
         /\ r.pending = r.sent
         /\ Len(r.sent) = 2
         /\ r.sent[1].role = "user" /\ r.sent[2].role = "assistant"
         /\ r.sent[1].ts = r.sent[2].ts
         /\ r.sent[1].id # r.sent[2].id
         /\ Count(r.log, "insertMany") = 1
         /\ "insert" \notin Range(r.log)
    /\ (Done(c) /\ r.batch \notin {"none", "throw"}) =>
         /\ r.pairRet = Bool(r.batch # "ok")
         /\ r.batch = "ok" =>
              \E i, j \in StoredOfPair(c) :
                /\ i < j /\ StoredOfPair(c) = {i, j}
                /\ entries[i] = r.sent[1] /\ entries[j] = r.sent[2]
         /\ r.batch = "assistantFailed" =>
              \E i \in StoredOfPair(c) :
                StoredOfPair(c) = {i} /\ entries[i] = r.sent[1]
         /\ r.batch = "userFailed" =>
              \E i \in StoredOfPair(c) :
                StoredOfPair(c) = {i} /\ entries[i] = r.sent[2]
         /\ r.batch = "bothFailed" => StoredOfPair(c) = {}

\* C9 witness: the assistant sub-insert failed, true was returned and the
\* user entry alone was stored.
C9_Witness ==
  \E c \in Callers :
    /\ Done(c)
    /\ calls[c].op = "addHistoryMessagePair"
    /\ calls[c].batch = "assistantFailed"
    /\ calls[c].ret = Bool(TRUE)
    /\ Cardinality(StoredOfPair(c)) = 1

\* C10 (as stated, from the doc comment): addHistoryMessagePair returns
\* true if both messages were added and false otherwise.
C10_TrueIffBothAdded ==
  \A c \in Callers :
    (Done(c) /\ calls[c].pairRet # Undefined) =>
      calls[c].pairRet = Bool(calls[c].batch = "ok")

\* The value at a path of keys and indices, Absent when a key of the path
\* names no property.
Absent == Prim("absent", "")
RECURSIVE Lookup(_, _)
Lookup(x, path) ==
  IF path = <<>> THEN x
  ELSE IF IsObject(x) /\ Has(x, Head(path))
    THEN Lookup(Get(x, Head(path)), Tail(path))
    ELSE Absent

\* The paths of a value that hold null.
RECURSIVE NullPaths(_)
NullPaths(x) ==
  UNION {IF x.kids[i].x.t = "null" THEN {<<x.kids[i].k>>}
         ELSE {<<x.kids[i].k>> \o q : q \in NullPaths(x.kids[i].x)}
         : i \in 1..Len(x.kids)}

\* Call c awaits the data.insert of StoreDiscordMessagePayload.
Handed(c) ==
  /\ calls[c].pc \in {"insert", "storeUser", "storeAssistant"}
  /\ calls[c].properties # JUndefined

C12_CallerIdNotForwarded ==
  \A c \in Callers :
    (Handed(c) /\ Get(calls[c].params, "id") = PayloadId) =>
      /\ ~Has(calls[c].properties, "id")
      /\ Get(calls[c].properties, "messageID") = PayloadId
      /\ Len(calls[c].pending) = 1
      /\ Uuid(calls[c].pending[1].id) # PayloadId.v
      /\ \A i \in 1..Len(entries) : entries[i].id # calls[c].pending[1].id

\* C12 witness: a payload that brought its own messageID next to id = X is
\* on its way to a collection that already holds an object.
C12_Witness ==
  \E c \in Callers :
    /\ Handed(c)
    /\ Get(calls[c].params, "id") = PayloadId
    /\ Get(calls[c].params, "messageID") = JStr("M")
    /\ Get(calls[c].properties, "messageID") = PayloadId
    /\ entries # <<>>

\* The stored objects whose identifier call c returned.
StoredAs(c) ==
  {i \in 1..Len(entries) : Str(Uuid(entries[i].id)) = calls[c].ret}

\* C13: addHistoryMessage called while no handle is held sends no insert,
\* stores nothing and returns the error 'Error getting collection', which
\* is the identifier of no entry; called while the collection is open, with
\* the insert succeeding, it stores exactly one entry, with the role and
\* content given, and returns the identifier of that entry.
C13_AppendTurnRequiresOpen ==
  \A c \in Callers :
    (Done(c) /\ calls[c].op = "addHistoryMessage") =>
      LET r == calls[c] IN
      /\ ~r.heldAtStart =>
           /\ r.log = <<>>
           /\ r.added = <<>>
           /\ r.ret = Str("Error getting collection")
           /\ StoredAs(c) = {}
      /\ r.heldAtStart =>
           /\ r.log = <<"insert">>
           /\ r.ret # Str("Error getting collection")
           /\ r.added # <<>> =>
                /\ r.added = <<r.role>>
                /\ \E i \in StoredAs(c) :
                     /\ StoredAs(c) = {i}
                     /\ entries[i].role = r.role
                     /\ entries[i].content = ReplyText
           /\ r.added = <<>> => StoredAs(c) = {}

\* C13 witness: a call made before any open returned the error and the
\* collection was left as it was.
C13_Witness ==
  \E c \in Callers :
    /\ Done(c)
    /\ calls[c].op = "addHistoryMessage"
    /\ ~calls[c].heldAtStart
    /\ calls[c].ret = Str("Error getting collection")
    /\ calls[c].log = <<>>

\* C14 (as stated): every finished discordxchange call that reached an open
\* collection sent both of its structured writes, the inbound payload and
\* the reply, whatever the typing indicator, the query, the completion and
\* the send did.
C14_BothPayloadsPersisted ==
  \A c \in Callers :
    (Done(c) /\ calls[c].op = "discordxchange" /\ calls[c].collection # NULL)
      => Count(calls[c].log, "insert") = 2

\* The requests a call can be awaiting at each of its places.
RequestsOf(pc) ==
  CASE pc = "query" -> {"query.hybrid", "query.nearText"}
    [] pc = "generate" -> {"generate.hybrid", "generate.nearText"}
    [] pc \in {"insert", "storeUser", "storeAssistant"} -> {"insert"}
    [] pc \in {"loopTest", "sleeping"} -> {"isReady"}
    [] pc = "json" -> {"completion"}
    [] OTHER -> {pc}

\* The places where a call awaits no request: before and after it, and
\* where it awaits the promise of a method of the manager that has returned.
NoRequest == {"idle", "done", "opened", "created", "storedUser"}

\* The request in flight of a call is the last one it issued.
OneInFlight(r) ==
  r.pc \notin NoRequest =>
    r.log # <<>> /\ r.log[Len(r.log)] \in RequestsOf(r.pc)

\* What the call was awaiting when it issued request x.
IssuedAfter(r, x) ==
  CASE x = "completion" -> r.pc = "query"
    [] x = "send" -> r.pc = "json"
    [] x = "insertMany" /\ r.op = "exchange" -> r.pc \in {"completion", "json"}
    [] x = "insert" /\ r.op = "exchange" -> r.pc = "generate"
    [] x = "insert" /\ r.op = "discordxchange" ->
         r.pc \in {"completion", "json", "send", "storeUser", "storedUser"}
    [] x \in RequestsOf("query") /\ r.op = "discordxchange" ->
         r.pc = "typing"
    [] x \in RequestsOf("query") \cup RequestsOf("generate") \cup {"typing"} ->
         r.pc = "opened"
    [] OTHER -> TRUE

\* C15: within one exchange or discordxchange call the remote steps are
\* strictly sequential: a step issues at most one request, and only when
\* the request before it was answered in that step, so at most one
\* request of the call is in flight; the completion is requested only on
\* the answer to the retrieval query, the send only on the body of the
\* completion's answer, and a persistence write only on the answer to the
\* generation, completion or send step (or to the write before it).
C15_StrictlySequential ==
  [][\A c \in Callers :
       LET r == calls[c]
           n == calls'[c] IN
       (n.op \in {"exchange", "discordxchange"}) =>
         /\ OneInFlight(n)
         /\ Len(n.log) <= Len(r.log) + 1
         /\ (r.op = n.op /\ Len(n.log) = Len(r.log) + 1) =>
              /\ SubSeq(n.log, 1, Len(r.log)) = r.log
              /\ IssuedAfter(r, n.log[Len(n.log)])]_vars

\* C15 witness: a discordxchange call went through typing, query,
\* completion and send, wrote the inbound payload and awaits the write of
\* the reply.
C15_Witness ==
  \E c \in Callers :
    /\ calls[c].op = "discordxchange"
    /\ calls[c].heldAtStart
    /\ calls[c].pc = "storeAssistant"
    /\ calls[c].log = <<"typing", "query.hybrid", "completion", "send",
                        "insert", "insert">>

\* 'Discord_' for the discord kind and 'History_' for any other.
PrefixOf(type) == IF type = "discord" THEN Discord_ ELSE History_

\* The characters of a name that are not whitespace, in their order.
RECURSIVE Stripped(_)
Stripped(s) ==
  IF s = <<>> THEN <<>>
  ELSE IF Head(s) \in Whitespace THEN Stripped(Tail(s))
  ELSE <<Head(s)>> \o Stripped(Tail(s))

\* C16: the collection name is the prefix of the source kind followed by
\* the logical name with every whitespace character removed, whatever the
\* inputs (history and 'Test Room' give 'History_TestRoom'); it is a
\* function of the two inputs and no operation changes it.
C16_NameIsPureFunction ==
  /\ [](/\ dataCollectionName = PrefixOf(exchangeType) \o Stripped(collectionArg)
        /\ \A i \in 1..Len(dataCollectionName) :
             dataCollectionName[i] \notin Whitespace
        /\ (exchangeType = "history" /\ collectionArg = TestRoom) =>
             dataCollectionName = <<"H", "i", "s", "t", "o", "r", "y", "_",
                                    "T", "e", "s", "t", "R", "o", "o", "m">>)
  /\ [][dataCollectionName' = dataCollectionName]_vars

\* C16 witness: a manager named with two separate runs of whitespace has
\* created its collection.
C16_Witness ==
  /\ collectionArg = <<" ", "T", "\t">>
  /\ dataCollectionName = <<"D", "i", "s", "c", "o", "r", "d", "_", "T">>
  /\ dataCollection = HANDLE
  /\ \E c \in Callers : Done(c) /\ calls[c].op = "initialize"

\* The requests of the open that a call issued, in order.
OpenLog(r) == LET open(x) == x \in OpenRequests IN SelectSeq(r.log, open)

\* Call c is past its getClient.
PastGetClient(c) ==
  /\ "connect" \in Range(calls[c].log)
  /\ calls[c].pc \notin {"connect", "isReady", "loopTest", "sleeping"}

\* C17: getClient never throws: when the session request or the readiness
\* check fails it returns an Error whose message is that of the cause, and
\* nothing of the open is requested after it; it returns the client only
\* when both succeeded and the remote was ready.  A direct caller is given
\* that value and initialize hands the message on in its own result.
C17_GetClientNeverThrows ==
  \A c \in Callers :
    LET r == calls[c] IN
    /\ r.getClientRet.t # "thrown"
    /\ PastGetClient(c) => r.getClientRet \in
                             {ClientValue, ErrorValue(ConnectError),
                              ErrorValue(ReadyError)}
    /\ r.getClientRet.t = "error" =>
         /\ r.getClientRet.v = r.cause
         /\ r.cause = ConnectError => OpenLog(r) = <<"connect">>
         /\ r.cause = ReadyError => OpenLog(r) = <<"connect", "isReady">>
         /\ (Done(c) /\ r.op = "initialize") =>
              r.ret = Str("Error initializing client: " \o r.cause)
    /\ r.getClientRet = ClientValue =>
         /\ SubSeq(r.log, 1, 2) = <<"connect", "isReady">>
         /\ r.isReady
         /\ r.cause \notin {ConnectError, ReadyError}
         /\ r.op # "getClient" => client = CLIENT
    /\ (Done(c) /\ r.op = "getClient") => r.ret = r.getClientRet

\* C17 witness: the readiness check threw, getClient returned the Error
\* and initialize returned its message.
C17_Witness ==
  \E c \in Callers :
    /\ Done(c)
    /\ calls[c].op = "initialize"
    /\ calls[c].getClientRet = ErrorValue(ReadyError)
    /\ calls[c].ret = Str("Error initializing client: " \o ReadyError)

\* C18 (as stated): once dataCollection holds a handle no step of
\* initialize, openCollectionChannel, exchange or discordxchange, in any
\* interleaving, sets it back to null.
C18_HandleNeverLost ==
  [][dataCollection # NULL => dataCollection' # NULL]_vars

\* C19 (as stated): a generative call whose generated text could not be
\* stored returns 'Error adding ai response to history', and returns the
\* reply only when the assistant turn was stored.
C19_StoreFailureReported ==
  \A c \in Callers :
    (RoutineCall(c, "generative") /\ Truthy(calls[c].response)) =>
      /\ calls[c].added = <<>> =>
           calls[c].ret = Str("Error adding ai response to history")
      /\ calls[c].ret = calls[c].response =>
           calls[c].added = <<"assistant">>

\* The calls of the instance so far are the exchange call whose open
\* failed and the exchange call c that follows it: no other call ran or runs
\* on the instance.
NextAfterFailedOpen(c) ==
  /\ calls[c].op = "exchange"
  /\ calls[c].lastOpenCause # ""
  /\ ~calls[c].heldAtStart
  /\ started = 2

\* C20: an exchange call whose open failed and left no handle returns
\* 'Error getting collection collection' without a request of any routine,
\* and the manager holds no handle then; the exchange call that follows it
\* on the same instance attempts the open again, starting with the session
\* request; when the store then reports the collection as existing that
\* open sends no create, sets the handle and returns true, and the call
\* takes the handle and, for a pair of the table, runs its routine.  With
\* other calls in flight on the instance the open still sends no create,
\* sets the handle and returns true, and the call takes the handle it
\* finds held when it resumes.
C20_FailedOpenNotSticky ==
  /\ [](\A c \in Callers :
          calls[c].op = "exchange" =>
            LET r == calls[c] IN
            /\ (Done(c) /\ r.openRet = Bool(FALSE) /\ r.collection = NULL) =>
                 /\ r.ret = Str("Error getting collection collection")
                 /\ Range(r.log) \subseteq OpenRequests
                 /\ dataCollection = NULL
            /\ (r.lastOpenCause # "" /\ ~r.heldAtStart) =>
                 /\ r.log # <<>> /\ r.log[1] = "connect"
                 /\ r.exists = "yes" =>
                      /\ "create" \notin Range(r.log)
                      /\ r.openRet = Bool(TRUE)
            /\ (NextAfterFailedOpen(c) /\ r.exists = "yes") =>
                 /\ dataCollection = HANDLE
                 /\ r.pc # "opened" =>
                      /\ r.collection = HANDLE
                      /\ r.ret # Str("Error getting collection collection")
                      /\ Dispatch(runtime, r.search, r.method) = "routine" =>
                           FirstRequest(r.search, r.method) \in Range(r.log))
  /\ [][\A c \in Callers :
         LET r == calls[c]
             n == calls'[c] IN
         (r.op = "exchange" /\ n.op = "exchange" /\ r.lastOpenCause # ""
            /\ n.exists = "yes") =>
           /\ (r.pc = "exists" /\ n.pc = "opened") => dataCollection' = HANDLE
           /\ (r.pc = "opened" /\ n.pc # "opened"
                 /\ dataCollection = HANDLE) =>
                /\ n.collection = HANDLE
                /\ n.ret # Str("Error getting collection collection")]_vars

\* C20 witness: the call before lost the create race; this one, the next
\* call of the instance, found the collection existing, took the handle
\* without a create and awaits the retrieval query of its routine.
C20_Witness ==
  \E c \in Callers :
    /\ NextAfterFailedOpen(c)
    /\ calls[c].lastOpenCause = CreateError
    /\ calls[c].exists = "yes"
    /\ calls[c].pc = "query"
    /\ calls[c].log = <<"connect", "isReady", "exists", "query.hybrid">>
    /\ dataCollection = HANDLE
====
